---------------------------- MODULE Spec2Model ----------------------------
(***************************************************************************)
(* ValPanel (src/app/app.py): provisioning and lifecycle reconciliation of *)
(* per-server Valheim containers.  Every HTTP handler is a sequence of     *)
(* steps, one per call to the record store, the container runtime or the   *)
(* file system; requests are served by concurrent workers.                 *)
(***************************************************************************)
EXTENDS Integers, Sequences, FiniteSets, TLC

\* ------------------------------------------------------------------ bounds
NumProcs == 2          \* concurrent request workers
MaxId == 3             \* largest primary key the model lets the store hand out
SmallSpan == 3         \* the small pool is [start, start + SmallSpan)
MaxBlockSize == 3      \* VALHEIM_PORT_BLOCK_SIZE ranges over 1 .. MaxBlockSize

\* ------------------------------------------------------- program constants
VALHEIM_PORT_RANGE_START == 24560
VALHEIM_PORT_RANGE_END == 24660
VALHEIM_PORT_BLOCK_SIZE == 3
DefaultTail == 500
MaxTail == 5000

Procs == 1 .. NumProcs

VARIABLES
    conf,        \* app.config: the port pool [start, end) and its step
    servers,     \* rows of table "servers"
    containers,  \* the runtime: container name -> [status, ports]
    dirs,        \* slugs whose DATA_ROOT/<slug> directory exists
    req          \* per worker: the request in progress and its locals

vars == <<conf, servers, containers, dirs, req>>

\* ------------------------------------------------------------------ slugify
Upper ==
    <<"A", "B", "C", "D", "E", "F", "G", "H", "I", "J", "K", "L", "M",
      "N", "O", "P", "Q", "R", "S", "T", "U", "V", "W", "X", "Y", "Z">>

Lower ==
    <<"a", "b", "c", "d", "e", "f", "g", "h", "i", "j", "k", "l", "m",
      "n", "o", "p", "q", "r", "s", "t", "u", "v", "w", "x", "y", "z">>

Digits == {"0", "1", "2", "3", "4", "5", "6", "7", "8", "9"}

\* the character class [a-z0-9]
Alnum == {Lower[i] : i \in DOMAIN Lower} \cup Digits

\* str.lower() on one character
lower(c) ==
    IF \E i \in DOMAIN Upper : Upper[i] = c
    THEN Lower[CHOOSE i \in DOMAIN Upper : Upper[i] = c]
    ELSE c

\* mutant: the pattern has no "+", every other character becomes a "-"
RECURSIVE re_sub_each(_, _)
re_sub_each(s, inRun) ==
    IF s = <<>> THEN <<>>
    ELSE IF Head(s) \in Alnum THEN <<Head(s)>> \o re_sub_each(Tail(s), FALSE)
    ELSE <<"-">> \o re_sub_each(Tail(s), TRUE)

\* re.sub(r"[^a-z0-9]+", "-", s): every maximal run of other characters
\* becomes one "-"
RECURSIVE re_sub(_, _)
re_sub(s, inRun) ==
    IF s = <<>> THEN <<>>
    ELSE IF Head(s) \in Alnum THEN <<Head(s)>> \o re_sub(Tail(s), FALSE)
    ELSE IF inRun THEN re_sub(Tail(s), TRUE)
    ELSE <<"-">> \o re_sub(Tail(s), TRUE)

RECURSIVE lstrip(_)
lstrip(s) == IF s # <<>> /\ Head(s) = "-" THEN lstrip(Tail(s)) ELSE s

RECURSIVE rstrip(_)
rstrip(s) ==
    IF s # <<>> /\ s[Len(s)] = "-" THEN rstrip(SubSeq(s, 1, Len(s) - 1)) ELSE s

strip(s) == rstrip(lstrip(s))

DefaultSlug == <<"s", "e", "r", "v", "e", "r">>

slugify(name) ==
    LET slug == strip(re_sub([i \in 1 .. Len(name) |-> lower(name[i])], FALSE))
    IN  IF slug = <<>> THEN DefaultSlug ELSE slug

Prefix == <<"v", "a", "l", "p", "a", "n", "e", "l", "_">>

\* mutant: the slug is left out of the name
container_name_fixed(slug) == Prefix

container_name_of(slug) == Prefix \o slug

\* ------------------------------------------------------------------- inputs
\* request bodies: "A" and "a!" normalise to the same slug, "!!" to the default
Names == {<<>>, <<"A">>, <<"a", "!">>, <<"!", "!">>}
WorldNames == {"", "w"}
Passwords == {"", "p"}
Slugs == {slugify(n) : n \in Names \ {<<>>}}
ContainerNames == {container_name_of(s) : s \in Slugs}
\* the "tail" query parameter: absent, or an integer
TailArgs == {<<>>, <<-1>>, <<0>>, <<1>>, <<500>>, <<5000>>, <<5001>>, <<50000>>}

Configs ==
    {[start |-> VALHEIM_PORT_RANGE_START, end |-> e, step |-> b] :
        e \in {VALHEIM_PORT_RANGE_END, VALHEIM_PORT_RANGE_START + SmallSpan},
        b \in 1 .. MaxBlockSize}

DefaultConfig ==
    [start |-> VALHEIM_PORT_RANGE_START, end |-> VALHEIM_PORT_RANGE_END,
     step |-> VALHEIM_PORT_BLOCK_SIZE]

\* --------------------------------------------------------------- data model
NoServer ==
    [id |-> 0, name |-> <<>>, slug |-> <<>>, world_name |-> "", password |-> "",
     base_port |-> 0, container_name |-> <<>>]

Missing == [status |-> "missing", ports |-> {}]

\* a docker-py Container object: the name it was looked up by, the status
\* cached by the last inspect, and whether the container it denotes still
\* exists (a handle denotes a container id, not a name)
NoContainer == [name |-> <<>>, status |-> "none", live |-> FALSE]

Idle ==
    [pc |-> "idle", op |-> "none", name |-> <<>>, world_name |-> "",
     password |-> "", slug |-> <<>>, base_port |-> 0, server |-> NoServer,
     container |-> NoContainer, observed |-> "none", existing |-> "none",
     tail_arg |-> <<>>, tail |-> 0, calls |-> <<>>, listing |-> {},
     result |-> "none"]

\* mutant: a container that was created and never started counts as usable
StaleWithoutCreated == {"exited", "dead"}

Stale == {"created", "exited", "dead"}

Max(a, b) == IF a >= b THEN a ELSE b
Min(a, b) == IF a <= b THEN a ELSE b

\* range(start, end, step)
range(start, end, step) ==
    {start + k * step : k \in {j \in 0 .. (end - start) : start + j * step < end}}

NoFreePort == -1

\* mutant: the scan does not look at the ports in use
allocate_first_block(rows) ==
    LET all == range(conf.start, conf.end, conf.step)
    IN  IF all = {} THEN NoFreePort
        ELSE CHOOSE b \in all : \A c \in all : b <= c

\* mutant: the scan continues after the highest port in use
allocate_next_block(rows) ==
    LET used_ports == {s.base_port : s \in rows}
        free == {b \in range(conf.start, conf.end, conf.step) :
                    \A u \in used_ports : b > u}
    IN  IF free = {} THEN NoFreePort
        ELSE CHOOSE b \in free : \A c \in free : b <= c

allocate_port_block(rows) ==
    LET used_ports == {s.base_port : s \in rows}
        free == {b \in range(conf.start, conf.end, conf.step) : b \notin used_ports}
    IN  IF free = {} THEN NoFreePort
        ELSE CHOOSE b \in free : \A c \in free : b <= c

\* ports = {base/udp: base, base+1/udp: base+1, base+2/udp: base+2}
ports_of(server) == {server.base_port, server.base_port + 1, server.base_port + 2}

\* SQLite rowid: one more than the largest id in the table
next_id(rows) ==
    IF rows = {} THEN 1
    ELSE 1 + (CHOOSE i \in {s.id : s \in rows} : \A s \in rows : s.id <= i)

\* the runtime refuses to bind a host port a running container has bound
ports_free(cn, ports) ==
    \A other \in ContainerNames \ {cn} :
        containers[other].status = "running" =>
            containers[other].ports \cap ports = {}

\* ---------------------------------------------------------------- plumbing
Upd(p, r) == req' = [req EXCEPT ![p] = r]

\* worker p continues with r, and the container named cn is gone: every
\* handle to it is dangling from now on
UpdUnlink(p, r, cn) ==
    req' = [q \in Procs |->
              LET x == IF q = p THEN r ELSE req[q]
              IN  IF x.container.name = cn
                  THEN [x EXCEPT !.container.live = FALSE]
                  ELSE x]

\* the handler returns: what stays until the response is sent is the request,
\* the response and the record of what the request did.  observed is the
\* status the handler's own get_container saw, existing the one
\* create_valheim_container saw, calls the runtime and file-system calls
\* issued, in order ("remove_failed" marks a remove that raised)
Finish(r, result) ==
    [Idle EXCEPT !.pc = "done", !.op = r.op, !.result = result,
                 !.name = r.name, !.server = r.server,
                 !.observed = r.observed, !.existing = r.existing,
                 !.tail = r.tail, !.calls = r.calls]

Call(r, c) == [r EXCEPT !.calls = Append(@, c)]

\* create_server requests that have not reached their INSERT yet
InFlightCreates ==
    Cardinality({q \in Procs : req[q].pc \in {"cs_alloc", "cs_commit"}})


\* mutant: the table declares no unique constraint
no_unique_constraint(rows, server) == FALSE

\* --------------------------------------------- models.py: table "servers"
\* slug and container_name are declared unique=True
unique_violation(rows, server) ==
    \E s \in rows :
        s.slug = server.slug \/ s.container_name = server.container_name

\* db.session.delete(server); db.session.commit(): DELETE ... WHERE id = ?
delete_row(rows, server) == {s \in rows : s.id # server.id}

\* Server.query.get_or_404(server_id)
get_or_404(server_id) ==
    IF \E s \in servers : s.id = server_id
    THEN CHOOSE s \in servers : s.id = server_id
    ELSE NoServer

\* ------------------------------------------------------------ create_server
\* lines 449-468: validation, slugify, duplicate check, for a request whose
\* name is one of names
create_server_named(p, names) ==
    /\ req[p].pc = "idle"
    /\ next_id(servers) + InFlightCreates <= MaxId
    /\ \E name \in names, world_name \in WorldNames, password \in Passwords :
         LET r == [Idle EXCEPT !.op = "create_server", !.name = name,
                               !.world_name = world_name, !.password = password]
             slug == slugify(name)
         IN  IF name = <<>> \/ world_name = "" \/ password = ""
             THEN Upd(p, Finish(r, "missing_fields"))
             ELSE IF \E s \in servers : s.slug = slug
             THEN Upd(p, Finish(r, "duplicate"))
             ELSE Upd(p, [r EXCEPT !.slug = slug, !.pc = "cs_alloc"])
    /\ UNCHANGED <<conf, servers, containers, dirs>>

\* mutant: the slug is not looked up before the INSERT
create_server_begin_unchecked(p) ==
    /\ req[p].pc = "idle"
    /\ next_id(servers) + InFlightCreates <= MaxId
    /\ \E name \in Names, world_name \in WorldNames, password \in Passwords :
         LET r == [Idle EXCEPT !.op = "create_server", !.name = name,
                               !.world_name = world_name, !.password = password]
             slug == slugify(name)
         IN  IF name = <<>> \/ world_name = "" \/ password = ""
             THEN Upd(p, Finish(r, "missing_fields"))
             ELSE Upd(p, [r EXCEPT !.slug = slug, !.pc = "cs_alloc"])
    /\ UNCHANGED <<conf, servers, containers, dirs>>

\* POST /api/servers with one of the request bodies of Names
create_server_begin(p) == create_server_named(p, Names)

\* mutant: an exhausted pool hands out its first block again
create_server_allocate_wrap(p) ==
    /\ req[p].pc = "cs_alloc"
    /\ LET base == allocate_port_block(servers)
       IN  IF base = NoFreePort
           THEN Upd(p, [req[p] EXCEPT !.base_port = conf.start, !.pc = "cs_commit"])
           ELSE Upd(p, [req[p] EXCEPT !.base_port = base, !.pc = "cs_commit"])
    /\ UNCHANGED <<conf, servers, containers, dirs>>

\* lines 470-473
create_server_allocate(p) ==
    /\ req[p].pc = "cs_alloc"
    /\ LET base == allocate_port_block(servers)
       IN  IF base = NoFreePort
           THEN Upd(p, Finish(req[p], "no_free_ports"))
           ELSE Upd(p, [req[p] EXCEPT !.base_port = base, !.pc = "cs_commit"])
    /\ UNCHANGED <<conf, servers, containers, dirs>>

\* lines 475-486: an INSERT that breaks a unique constraint raises
\* IntegrityError, which nothing catches
create_server_commit(p) ==
    /\ req[p].pc = "cs_commit"
    /\ LET r == req[p]
           server == [id |-> next_id(servers), name |-> r.name, slug |-> r.slug,
                      world_name |-> r.world_name, password |-> r.password,
                      base_port |-> r.base_port,
                      container_name |-> container_name_of(r.slug)]
       IN  IF unique_violation(servers, server)
           THEN /\ Upd(p, Finish(r, "crash"))
                /\ UNCHANGED servers
           ELSE /\ servers' = servers \cup {server}
                /\ Upd(p, [r EXCEPT !.server = server, !.pc = "cvc_get"])
    /\ UNCHANGED <<conf, containers, dirs>>

\* mutant: the rollback removes the directories as well
create_server_rollback_rmtree(p) ==
    /\ req[p].pc = "cs_rollback"
    /\ servers' = delete_row(servers, req[p].server)
    /\ dirs' = dirs \ {req[p].server.slug}
    /\ Upd(p, Finish(req[p], "docker_error"))
    /\ UNCHANGED <<conf, containers>>

\* lines 491-503
create_server_rollback(p) ==
    /\ req[p].pc = "cs_rollback"
    /\ servers' = delete_row(servers, req[p].server)
    /\ Upd(p, Finish(req[p], "docker_error"))
    /\ UNCHANGED <<conf, containers, dirs>>

\* ------------------------------------------------- create_valheim_container
\* mutant: start_server handles the error as create_server does
raise_APIError_rollback(r) == [r EXCEPT !.pc = "cs_rollback"]

\* an APIError leaves create_valheim_container: create_server rolls back,
\* start_server answers 500
raise_APIError(r) ==
    IF r.op = "create_server"
    THEN [r EXCEPT !.pc = "cs_rollback"]
    ELSE Finish(r, "create_failed")

\* mutant: start is called whatever the cached status
after_container_always_start(r, handle) ==
    [r EXCEPT !.container = handle, !.pc = "ss_start"]

\* start_server, line 527: container.status is the cached status
after_container(r, handle) ==
    IF handle.status = "running"
    THEN Finish(r, "started")
    ELSE [r EXCEPT !.container = handle, !.pc = "ss_start"]

\* create_valheim_container returns a handle to its caller
return_container(r, handle) ==
    IF r.op = "create_server"
    THEN Finish(r, "created")
    ELSE after_container(r, handle)

\* line 161
cvc_get(p) ==
    /\ req[p].pc = "cvc_get"
    /\ LET r == req[p]
           cn == r.server.container_name
       IN  \/ IF containers[cn].status = "missing"
              THEN Upd(p, [r EXCEPT !.existing = "missing", !.pc = "cvc_mkdir"])
              ELSE Upd(p, [r EXCEPT !.pc = "cvc_reload",
                             !.container = [name |-> cn, live |-> TRUE,
                                            status |-> containers[cn].status]])
           \/ Upd(p, raise_APIError(r))
    /\ UNCHANGED <<conf, servers, containers, dirs>>

\* lines 163-192
cvc_reload(p) ==
    /\ req[p].pc = "cvc_reload"
    /\ LET r == req[p]
           cn == r.container.name
           status == containers[cn].status
       IN  \/ /\ r.container.live
              /\ IF status \in Stale
                 THEN Upd(p, [r EXCEPT !.existing = status, !.pc = "cvc_remove",
                                !.container.status = status])
                 ELSE Upd(p, return_container([r EXCEPT !.existing = status],
                                              [r.container EXCEPT !.status = status]))
           \/ Upd(p, [r EXCEPT !.existing = "reload_error", !.pc = "cvc_remove"])
    /\ UNCHANGED <<conf, servers, containers, dirs>>

\* mutant: a failed removal is logged and creation goes on
cvc_remove_swallow(p) ==
    /\ req[p].pc = "cvc_remove"
    /\ LET r == Call(req[p], "remove")
           cn == r.container.name
       IN  \/ /\ r.container.live
              /\ containers' = [containers EXCEPT ![cn] = Missing]
              /\ UpdUnlink(p, [r EXCEPT !.pc = "cvc_mkdir"], cn)
           \/ /\ Upd(p, [Call(r, "remove_failed") EXCEPT !.pc = "cvc_mkdir"])
              /\ UNCHANGED containers
    /\ UNCHANGED <<conf, servers, dirs>>

\* lines 169-175 and 181-187: existing.remove(force=True)
cvc_remove(p) ==
    /\ req[p].pc = "cvc_remove"
    /\ LET r == Call(req[p], "remove")
           cn == r.container.name
       IN  \/ /\ r.container.live
              /\ containers' = [containers EXCEPT ![cn] = Missing]
              /\ UpdUnlink(p, [r EXCEPT !.pc = "cvc_mkdir"], cn)
           \/ /\ Upd(p, raise_APIError(Call(r, "remove_failed")))
              /\ UNCHANGED containers
           \/ /\ r.container.live
              /\ containers' = [containers EXCEPT ![cn].status = "dead"]
              /\ Upd(p, raise_APIError(Call(r, "remove_failed")))
    /\ UNCHANGED <<conf, servers, dirs>>

\* lines 202-209: an OSError is no APIError, nothing catches it
cvc_mkdir(p) ==
    /\ req[p].pc = "cvc_mkdir"
    /\ LET r == Call(req[p], "mkdir")
       IN  \/ /\ dirs' = dirs \cup {r.server.slug}
              /\ Upd(p, [r EXCEPT !.pc = "cvc_run"])
           \/ /\ dirs' \in {dirs, dirs \cup {r.server.slug}}
              /\ Upd(p, Finish(r, "crash"))
    /\ UNCHANGED <<conf, servers, containers>>

\* lines 228-237, docker-py run(): create the container ...
cvc_run(p) ==
    /\ req[p].pc = "cvc_run"
    /\ LET r == Call(req[p], "run")
           cn == r.server.container_name
       IN  \/ /\ containers[cn].status = "missing"
              /\ containers' = [containers EXCEPT
                                  ![cn] = [status |-> "created",
                                           ports |-> ports_of(r.server)]]
              /\ Upd(p, [r EXCEPT !.pc = "cvc_run_start",
                           !.container = [name |-> cn, status |-> "created",
                                          live |-> TRUE]])
           \/ /\ Upd(p, raise_APIError(r))
              /\ UNCHANGED containers
    /\ UNCHANGED <<conf, servers, dirs>>

\* ... and start it; the handle keeps the status cached at creation
cvc_run_start(p) ==
    /\ req[p].pc = "cvc_run_start"
    /\ LET r == req[p]
           cn == r.container.name
       IN  \/ /\ r.container.live
              /\ containers[cn].status \notin {"dead"}
              /\ containers[cn].status = "running"
                    \/ ports_free(cn, containers[cn].ports)
              /\ containers' = [containers EXCEPT ![cn].status = "running"]
              /\ Upd(p, return_container(r, r.container))
           \/ /\ Upd(p, raise_APIError(r))
              /\ UNCHANGED containers
    /\ UNCHANGED <<conf, servers, dirs>>

\* ------------------------------------------------------------ get_container
\* lines 137-141: the handle, or None when the runtime knows no such name
get_container(cn) ==
    IF containers[cn].status = "missing"
    THEN NoContainer
    ELSE [name |-> cn, status |-> containers[cn].status, live |-> TRUE]

\* the runtime starts the container a handle denotes: a dead container is
\* not started, a running one is left alone, any other has its ports bound
can_start(handle) ==
    /\ handle.live
    /\ containers[handle.name].status # "dead"
    /\ \/ containers[handle.name].status = "running"
       \/ ports_free(handle.name, containers[handle.name].ports)

\* the id of a DELETE/POST/GET /api/servers/<int:server_id> request
ServerIds == 1 .. MaxId

\* ------------------------------------------------------------- start_server
\* line 510
start_server_begin(p) ==
    /\ req[p].pc = "idle"
    /\ \E server_id \in ServerIds :
         LET r == [Idle EXCEPT !.op = "start_server",
                               !.server = get_or_404(server_id)]
         IN  IF r.server = NoServer
             THEN Upd(p, Finish(r, "not_found"))
             ELSE Upd(p, [r EXCEPT !.pc = "ss_get"])
    /\ UNCHANGED <<conf, servers, containers, dirs>>

\* mutant: a missing container is an error, as in stop_server
start_server_get_strict(p) ==
    /\ req[p].pc = "ss_get"
    /\ LET r == req[p]
           container == get_container(r.server.container_name)
       IN  \/ IF container = NoContainer
              THEN Upd(p, Finish([r EXCEPT !.observed = "missing"],
                                 "container_not_found"))
              ELSE Upd(p, after_container([r EXCEPT !.observed = container.status],
                                          container))
           \/ Upd(p, Finish(r, "crash"))
    /\ UNCHANGED <<conf, servers, containers, dirs>>

\* lines 511-515
start_server_get(p) ==
    /\ req[p].pc = "ss_get"
    /\ LET r == req[p]
           container == get_container(r.server.container_name)
       IN  \/ IF container = NoContainer
              THEN Upd(p, [r EXCEPT !.observed = "missing", !.pc = "cvc_get"])
              ELSE Upd(p, after_container([r EXCEPT !.observed = container.status],
                                          container))
           \/ Upd(p, Finish(r, "crash"))
    /\ UNCHANGED <<conf, servers, containers, dirs>>

\* lines 527-529: container.start(); an APIError is not caught
start_server_start(p) ==
    /\ req[p].pc = "ss_start"
    /\ LET r == Call(req[p], "start")
           cn == r.container.name
       IN  \/ /\ can_start(r.container)
              /\ containers' = [containers EXCEPT ![cn].status = "running"]
              /\ Upd(p, Finish(r, "started"))
           \/ /\ Upd(p, Finish(r, "crash"))
              /\ UNCHANGED containers
    /\ UNCHANGED <<conf, servers, dirs>>

\* -------------------------------------------------------------- stop_server
\* line 534
stop_server_begin(p) ==
    /\ req[p].pc = "idle"
    /\ \E server_id \in ServerIds :
         LET r == [Idle EXCEPT !.op = "stop_server",
                               !.server = get_or_404(server_id)]
         IN  IF r.server = NoServer
             THEN Upd(p, Finish(r, "not_found"))
             ELSE Upd(p, [r EXCEPT !.pc = "sp_get"])
    /\ UNCHANGED <<conf, servers, containers, dirs>>

\* lines 535-538
stop_server_get(p) ==
    /\ req[p].pc = "sp_get"
    /\ LET r == req[p]
           container == get_container(r.server.container_name)
       IN  \/ IF container = NoContainer
              THEN Upd(p, Finish([r EXCEPT !.observed = "missing"],
                                 "container_not_found"))
              ELSE IF container.status = "running"
              THEN Upd(p, [r EXCEPT !.observed = container.status,
                             !.container = container, !.pc = "sp_stop"])
              ELSE Upd(p, Finish([r EXCEPT !.observed = container.status],
                                 "stopped"))
           \/ Upd(p, Finish(r, "crash"))
    /\ UNCHANGED <<conf, servers, containers, dirs>>

\* lines 539-540: container.stop(); stopping a stopped container is no error
stop_server_stop(p) ==
    /\ req[p].pc = "sp_stop"
    /\ LET r == Call(req[p], "stop")
           cn == r.container.name
       IN  \/ /\ r.container.live
              /\ containers' =
                    [containers EXCEPT
                       ![cn].status = IF @ = "running" THEN "exited" ELSE @]
              /\ Upd(p, Finish(r, "stopped"))
           \/ /\ Upd(p, Finish(r, "crash"))
              /\ UNCHANGED containers
    /\ UNCHANGED <<conf, servers, dirs>>

\* ----------------------------------------------------------- restart_server
\* line 545
restart_server_begin(p) ==
    /\ req[p].pc = "idle"
    /\ \E server_id \in ServerIds :
         LET r == [Idle EXCEPT !.op = "restart_server",
                               !.server = get_or_404(server_id)]
         IN  IF r.server = NoServer
             THEN Upd(p, Finish(r, "not_found"))
             ELSE Upd(p, [r EXCEPT !.pc = "rs_get"])
    /\ UNCHANGED <<conf, servers, containers, dirs>>

\* mutant: restart only what runs, as stop_server stops only what runs
restart_server_get_only_running(p) ==
    /\ req[p].pc = "rs_get"
    /\ LET r == req[p]
           container == get_container(r.server.container_name)
       IN  \/ IF container = NoContainer
              THEN Upd(p, Finish([r EXCEPT !.observed = "missing"],
                                 "container_not_found"))
              ELSE IF container.status = "running"
              THEN Upd(p, [r EXCEPT !.observed = container.status,
                             !.container = container, !.pc = "rs_restart"])
              ELSE Upd(p, Finish([r EXCEPT !.observed = container.status],
                                 "restarted"))
           \/ Upd(p, Finish(r, "crash"))
    /\ UNCHANGED <<conf, servers, containers, dirs>>

\* lines 546-548
restart_server_get(p) ==
    /\ req[p].pc = "rs_get"
    /\ LET r == req[p]
           container == get_container(r.server.container_name)
       IN  \/ IF container = NoContainer
              THEN Upd(p, Finish([r EXCEPT !.observed = "missing"],
                                 "container_not_found"))
              ELSE Upd(p, [r EXCEPT !.observed = container.status,
                             !.container = container, !.pc = "rs_restart"])
           \/ Upd(p, Finish(r, "crash"))
    /\ UNCHANGED <<conf, servers, containers, dirs>>

\* lines 549-550: container.restart(); an APIError is not caught
restart_server_restart(p) ==
    /\ req[p].pc = "rs_restart"
    /\ LET r == Call(req[p], "restart")
           cn == r.container.name
       IN  \/ /\ can_start(r.container)
              /\ containers' = [containers EXCEPT ![cn].status = "running"]
              /\ Upd(p, Finish(r, "restarted"))
           \/ /\ Upd(p, Finish(r, "crash"))
              /\ UNCHANGED containers
    /\ UNCHANGED <<conf, servers, dirs>>

\* ------------------------------------------------------------ delete_server
\* line 566
delete_server_begin(p) ==
    /\ req[p].pc = "idle"
    /\ \E server_id \in ServerIds :
         LET r == [Idle EXCEPT !.op = "delete_server",
                               !.server = get_or_404(server_id)]
         IN  IF r.server = NoServer
             THEN Upd(p, Finish(r, "not_found"))
             ELSE Upd(p, [r EXCEPT !.pc = "ds_get"])
    /\ UNCHANGED <<conf, servers, containers, dirs>>

\* lines 569-570
delete_server_get(p) ==
    /\ req[p].pc = "ds_get"
    /\ LET r == req[p]
           container == get_container(r.server.container_name)
       IN  \/ IF container = NoContainer
              THEN Upd(p, [r EXCEPT !.observed = "missing", !.pc = "ds_rmtree"])
              ELSE Upd(p, [r EXCEPT !.observed = container.status,
                             !.container = container, !.pc = "ds_remove"])
           \/ Upd(p, Finish(r, "crash"))
    /\ UNCHANGED <<conf, servers, containers, dirs>>

\* a delete_server that gives up when the forced removal fails
delete_server_remove_strict(p) ==
    /\ req[p].pc = "ds_remove"
    /\ LET r == [Call(req[p], "remove") EXCEPT !.pc = "ds_rmtree"]
           cn == r.container.name
       IN  \/ /\ r.container.live
              /\ containers' = [containers EXCEPT ![cn] = Missing]
              /\ UpdUnlink(p, r, cn)
           \/ /\ Upd(p, Finish(Call(r, "remove_failed"), "crash"))
              /\ UNCHANGED containers
    /\ UNCHANGED <<conf, servers, dirs>>

\* lines 571-577: container.remove(force=True); an APIError is logged
delete_server_remove(p) ==
    /\ req[p].pc = "ds_remove"
    /\ LET r == [Call(req[p], "remove") EXCEPT !.pc = "ds_rmtree"]
           cn == r.container.name
       IN  \/ /\ r.container.live
              /\ containers' = [containers EXCEPT ![cn] = Missing]
              /\ UpdUnlink(p, r, cn)
           \/ /\ Upd(p, Call(r, "remove_failed"))
              /\ UNCHANGED containers
           \/ /\ r.container.live
              /\ containers' = [containers EXCEPT ![cn].status = "dead"]
              /\ Upd(p, Call(r, "remove_failed"))
    /\ UNCHANGED <<conf, servers, dirs>>

\* lines 580-586: shutil.rmtree(server_root); any exception is logged
delete_server_rmtree(p) ==
    /\ req[p].pc = "ds_rmtree"
    /\ LET r == [req[p] EXCEPT !.pc = "ds_commit"]
       IN  IF r.server.slug \in dirs
           THEN \/ /\ dirs' = dirs \ {r.server.slug}
                   /\ Upd(p, Call(r, "rmtree"))
                \/ /\ UNCHANGED dirs
                   /\ Upd(p, Call(r, "rmtree"))
           ELSE /\ UNCHANGED dirs
                /\ Upd(p, r)
    /\ UNCHANGED <<conf, servers, containers>>

\* lines 589-592
delete_server_commit(p) ==
    /\ req[p].pc = "ds_commit"
    /\ servers' = delete_row(servers, req[p].server)
    /\ Upd(p, Finish(req[p], "deleted"))
    /\ UNCHANGED <<conf, containers, dirs>>

\* ---------------------------------------------------------- get_server_logs
\* mutant: the tail is capped from above only
clamp_tail_no_floor(arg) ==
    LET tail == IF arg = <<>> THEN DefaultTail ELSE arg[1]
    IN  Min(tail, MaxTail)

\* lines 601-602: request.args.get("tail", default=500, type=int), clamped
clamp_tail(arg) ==
    LET tail == IF arg = <<>> THEN DefaultTail ELSE arg[1]
    IN  Max(1, Min(tail, MaxTail))

\* lines 601-604
get_server_logs_begin(p) ==
    /\ req[p].pc = "idle"
    /\ \E server_id \in ServerIds, arg \in TailArgs :
         LET r == [Idle EXCEPT !.op = "get_server_logs",
                               !.tail_arg = arg,
                               !.tail = clamp_tail(arg),
                               !.server = get_or_404(server_id)]
         IN  IF r.server = NoServer
             THEN Upd(p, Finish(r, "not_found"))
             ELSE Upd(p, [r EXCEPT !.pc = "lg_get"])
    /\ UNCHANGED <<conf, servers, containers, dirs>>

\* lines 605-607
get_server_logs_get(p) ==
    /\ req[p].pc = "lg_get"
    /\ LET r == req[p]
           container == get_container(r.server.container_name)
       IN  \/ IF container = NoContainer
              THEN Upd(p, Finish([r EXCEPT !.observed = "missing"],
                                 "container_not_found"))
              ELSE Upd(p, [r EXCEPT !.observed = container.status,
                             !.container = container, !.pc = "lg_logs"])
           \/ Upd(p, Finish(r, "crash"))
    /\ UNCHANGED <<conf, servers, containers, dirs>>

\* lines 609-614: container.logs(tail=tail); any exception becomes a 500
get_server_logs_logs(p) ==
    /\ req[p].pc = "lg_logs"
    /\ \/ /\ req[p].container.live
          /\ Upd(p, Finish(req[p], "logs"))
       \/ Upd(p, Finish(req[p], "logs_failed"))
    /\ UNCHANGED <<conf, servers, containers, dirs>>

\* ------------------------------------------------------------- list_servers
\* models.py, Server.to_dict: the row without its password
to_dict(server) ==
    [id |-> server.id, name |-> server.name, slug |-> server.slug,
     world_name |-> server.world_name, base_port |-> server.base_port,
     container_name |-> server.container_name]

\* lines 433-444: every row with the status of its container, "missing" when
\* get_container returns None; an APIError of a lookup is not caught
list_servers(p) ==
    /\ req[p].pc = "idle"
    /\ LET r == [Idle EXCEPT !.op = "list_servers"]
           status(s) == LET container == get_container(s.container_name)
                        IN  IF container = NoContainer THEN "missing"
                            ELSE container.status
           result == {[info |-> to_dict(s), container_status |-> status(s)] :
                         s \in servers}
       IN  \/ Upd(p, [Finish(r, "listed") EXCEPT !.listing = result])
           \/ /\ servers # {}
              /\ Upd(p, Finish(r, "crash"))
    /\ UNCHANGED <<conf, servers, containers, dirs>>

\* the response is sent; the worker takes the next request
respond(p) ==
    /\ req[p].pc = "done"
    /\ Upd(p, Idle)
    /\ UNCHANGED <<conf, servers, containers, dirs>>

\* ------------------------------------------------------------ specification
NoContainers == [cn \in ContainerNames |-> Missing]

Init ==
    /\ conf \in Configs
    /\ servers = {}
    /\ containers = NoContainers
    /\ dirs = {}
    /\ req = [p \in Procs |-> Idle]

Step(p) ==
    \/ create_server_begin(p)
    \/ create_server_allocate(p)
    \/ create_server_commit(p)
    \/ create_server_rollback(p)
    \/ cvc_get(p)
    \/ cvc_reload(p)
    \/ cvc_remove(p)
    \/ cvc_mkdir(p)
    \/ cvc_run(p)
    \/ cvc_run_start(p)
    \/ start_server_begin(p)
    \/ start_server_get(p)
    \/ start_server_start(p)
    \/ stop_server_begin(p)
    \/ stop_server_get(p)
    \/ stop_server_stop(p)
    \/ restart_server_begin(p)
    \/ restart_server_get(p)
    \/ restart_server_restart(p)
    \/ delete_server_begin(p)
    \/ delete_server_get(p)
    \/ delete_server_remove(p)
    \/ delete_server_rmtree(p)
    \/ delete_server_commit(p)
    \/ get_server_logs_begin(p)
    \/ get_server_logs_get(p)
    \/ get_server_logs_logs(p)
    \/ list_servers(p)
    \/ respond(p)

\* requests served one after the other
Next == Step(1)

Spec == Init /\ [][Next]_vars

\* an empty panel under the default configuration
InitDefault ==
    /\ conf = DefaultConfig
    /\ servers = {}
    /\ containers = NoContainers
    /\ dirs = {}
    /\ req = [p \in Procs |-> Idle]

\* NumProcs create_server requests, one per worker, overlapping in any way
Provision(p) ==
    \/ create_server_begin(p)
    \/ create_server_allocate(p)
    \/ create_server_commit(p)
    \/ create_server_rollback(p)
    \/ cvc_get(p)
    \/ cvc_reload(p)
    \/ cvc_remove(p)
    \/ cvc_mkdir(p)
    \/ cvc_run(p)
    \/ cvc_run_start(p)

NextProvision == \E p \in Procs : Provision(p)

ProvSpec == InitDefault /\ [][NextProvision]_vars


\* ------------------------------------------------------------------- claims
AllReturned == \A p \in Procs : req[p].pc \in {"idle", "done"}

\* a create_server request whose INSERT was refused by a unique constraint
IntegrityError(p) ==
    /\ req[p].pc = "done"
    /\ req[p].op = "create_server"
    /\ req[p].result = "crash"
    /\ req[p].calls = <<>>

\* C1 (as claimed; ProvSpec): once all concurrent create_server requests have
\* returned, no two rows share a base_port.
C1_DistinctBasePorts ==
    AllReturned =>
        \A s \in servers, t \in servers : s # t => s.base_port # t.base_port

\* C2 (ProvSpec): once all concurrent create_server requests have returned,
\* no two rows share a slug, also when two requests carried different names
\* with the same slug.
C2_DistinctSlugs ==
    AllReturned =>
        \A s \in servers, t \in servers : s # t => s.slug # t.slug

\* two requests with different names of one slug both passed the duplicate
\* check; one was committed, the other refused
C2_Witness ==
    /\ AllReturned
    /\ \E p \in Procs, q \in Procs :
         /\ IntegrityError(p)
         /\ req[q].pc = "done" /\ req[q].result = "created"
         /\ req[q].server \in servers
         /\ req[p].name # req[q].name
         /\ slugify(req[p].name) = req[q].server.slug

\* C3 (Spec): under block size 3 the blocks {base_port, base_port + 1,
\* base_port + 2} of two rows never meet, whatever create_server and
\* delete_server requests were served one after the other.
C3_DisjointBlocks ==
    conf.step = VALHEIM_PORT_BLOCK_SIZE =>
        \A s \in servers, t \in servers :
            s # t =>
                {s.base_port, s.base_port + 1, s.base_port + 2}
                    \cap {t.base_port, t.base_port + 1, t.base_port + 2} = {}

\* a server was provisioned below the block of an older row: a delete_server
\* had freed that block
C3_Witness ==
    /\ conf.step = VALHEIM_PORT_BLOCK_SIZE
    /\ req[1].pc = "done" /\ req[1].op = "create_server"
    /\ req[1].result = "created"
    /\ req[1].server \in servers
    /\ \E t \in servers :
         /\ t.id < req[1].server.id
         /\ t.base_port > req[1].server.base_port

\* C4 (ProvSpec): in every state slug and container_name are unique among the
\* rows, and every container_name is the prefix followed by the row's slug.
C4_UniqueNames ==
    /\ \A s \in servers, t \in servers :
         s # t => s.slug # t.slug /\ s.container_name # t.container_name
    /\ \A s \in servers : s.container_name = Prefix \o s.slug

\* a request was refused by the store while the request that holds the row of
\* that slug is still launching its container
C4_Witness ==
    \E p \in Procs, q \in Procs :
        /\ IntegrityError(p)
        /\ req[q].pc = "cvc_run_start"
        /\ req[q].server \in servers
        /\ req[q].server.slug = slugify(req[p].name)
        /\ req[q].server.container_name = Prefix \o slugify(req[p].name)

\* C5 (as claimed; Spec): when create_server has committed the row and
\* create_valheim_container then fails, with a runtime error or a file-system
\* error, the row is gone when create_server returns.
C5_RolledBack ==
    \A p \in Procs :
        (/\ req[p].pc = "done"
         /\ req[p].op = "create_server"
         /\ req[p].server # NoServer
         /\ req[p].result # "created")
        => ~ \E s \in servers : s.id = req[p].server.id

\* the statuses the specification calls stale
StaleStates == {"created", "exited", "dead"}

\* the calls a request has issued, as a set
Issued(r) == {r.calls[i] : i \in 1 .. Len(r.calls)}

\* the container of the row a request works on
ContainerOf(r) == containers[r.server.container_name]

\* the requests that go through create_valheim_container
EnsureOps == {"create_server", "start_server"}

\* C6 (Spec): create_valheim_container acts on the status it observes.
\* Missing: it creates.  created, exited or dead: it force-removes, then
\* creates.  running: it returns the handle and issues no remove, no create
\* and no start.
C6_Reconcile ==
    \A p \in Procs :
        LET r == req[p]
        IN  r.op \in EnsureOps =>
              /\ r.existing = "running" => r.calls = <<>>
              /\ (r.existing \in StaleStates /\ r.pc # "cvc_remove") =>
                    (r.calls # <<>> /\ r.calls[1] = "remove")
              /\ (r.existing = "missing" /\ r.calls # <<>>) =>
                    r.calls[1] = "mkdir"
              /\ "run" \in Issued(r) =>
                    IF r.existing = "missing"
                    THEN SubSeq(r.calls, 1, 2) = <<"mkdir", "run">>
                    ELSE SubSeq(r.calls, 1, 3) = <<"remove", "mkdir", "run">>
              /\ (r.pc = "done" /\ r.result = "created") =>
                    /\ ContainerOf(r).status = "running"
                    /\ r.existing # "running" =>
                          /\ "run" \in Issued(r)
                          /\ ContainerOf(r).ports = ports_of(r.server)

\* a server was provisioned over a left-over container observed exited: it
\* was removed and created anew
C6_Witness ==
    /\ req[1].pc = "done" /\ req[1].op = "create_server"
    /\ req[1].result = "created"
    /\ req[1].existing = "exited"
    /\ req[1].calls = <<"remove", "mkdir", "run">>

\* C7 (Spec): when the force-removal in create_valheim_container fails, after
\* a reload error or for a stale container, the error reaches the caller and
\* that invocation creates neither directories nor a container.
C7_RemoveFailureFatal ==
    \A p \in Procs :
        LET r == req[p]
        IN  (r.op \in EnsureOps /\ "remove_failed" \in Issued(r)) =>
              /\ r.calls = <<"remove", "remove_failed">>
              /\ r.pc \in {"cs_rollback", "done"}
              /\ r.pc = "done" => r.result \in {"docker_error", "create_failed"}

\* the removal that follows a reload error failed
C7_Witness ==
    /\ req[1].pc = "done" /\ req[1].op = "create_server"
    /\ req[1].existing = "reload_error"
    /\ "remove_failed" \in Issued(req[1])
    /\ req[1].result = "docker_error"

\* C8 (Spec): start_server on a row whose container is missing does not
\* answer "container not found": it goes through create_valheim_container,
\* and when no call fails the container exists and is running on return.
C8_StartRecreates ==
    \A p \in Procs :
        LET r == req[p]
        IN  (r.op = "start_server" /\ r.pc = "done" /\ r.observed = "missing") =>
              /\ r.result \in {"started", "create_failed", "crash"}
              /\ r.result = "started" =>
                    /\ r.existing # "none"
                    /\ "run" \in Issued(r)
                    /\ ContainerOf(r).status = "running"
                    /\ ContainerOf(r).ports = ports_of(r.server)

C8_Witness ==
    /\ req[1].pc = "done" /\ req[1].op = "start_server"
    /\ req[1].observed = "missing"
    /\ req[1].result = "started"
    /\ ContainerOf(req[1]).status = "running"

\* C9 (Spec): start_server leaves the container running, and on a container
\* observed running it issues no start and succeeds; stop_server leaves the
\* container present and not running, and on a container observed not
\* running it issues no stop and succeeds.  So a second start (stop) in a row
\* changes nothing.
C9_Idempotent ==
    \A p \in Procs :
        LET r == req[p]
        IN  r.pc = "done" =>
              /\ (r.op = "start_server" /\ r.result = "started") =>
                    ContainerOf(r).status = "running"
              /\ (r.op = "start_server" /\ r.observed = "running") =>
                    (r.result = "started" /\ r.calls = <<>>)
              /\ (r.op = "stop_server" /\ r.result = "stopped") =>
                    ContainerOf(r).status \in StaleStates
              /\ (r.op = "stop_server" /\ r.observed \in StaleStates) =>
                    (r.result = "stopped" /\ r.calls = <<>>)

\* a start_server that found its container running
C9_Witness ==
    /\ req[1].pc = "done" /\ req[1].op = "start_server"
    /\ req[1].observed = "running"
    /\ req[1].result = "started"
    /\ req[1].calls = <<>>

\* the handlers that answer 404 when the container is missing
StrictOps == {"stop_server", "restart_server", "get_server_logs"}

\* C10 (Spec): stop_server, restart_server and get_server_logs on a row whose
\* container is missing answer "container not found" and issue no call; the
\* step that observes the missing container changes neither runtime, store
\* nor directories; restart_server on a container that exists issues restart
\* whatever status it observed.
C10_MissingIsAnError ==
    /\ [](\A p \in Procs :
            LET r == req[p]
            IN  r.pc = "done" =>
                  /\ (r.op \in StrictOps /\ r.observed = "missing") =>
                        (r.result = "container_not_found" /\ r.calls = <<>>)
                  /\ (r.op = "restart_server"
                        /\ r.observed \in StaleStates \cup {"running"}) =>
                        r.calls = <<"restart">>)
    /\ [][\A p \in Procs :
            (req[p].op \in StrictOps /\ req[p].pc # "done"
                /\ req'[p].observed = "missing") =>
                (containers' = containers /\ servers' = servers /\ dirs' = dirs)]_vars

\* a restart_server that found no container
C10_Witness ==
    /\ req[1].pc = "done" /\ req[1].op = "restart_server"
    /\ req[1].observed = "missing"
    /\ req[1].result = "container_not_found"

\* ---------------------------------------------------------------------- C11
\* the container and the directory as delete_server met them
RemovalFailed(r) == "remove_failed" \in Issued(r)
RmtreeFailed(r) == "rmtree" \in Issued(r) /\ r.server.slug \in dirs

\* C11: a delete_server on an existing row whose container lookup was
\* answered (container found or missing) ends with "deleted" and the row gone
\* from the store, whether the forced removal succeeded or failed and whether
\* the directory was present, absent or could not be removed.
C11_DeleteAlwaysSucceeds ==
    \A p \in Procs :
        (req[p].pc = "done" /\ req[p].op = "delete_server"
            /\ req[p].server # NoServer /\ req[p].observed # "none") =>
            /\ req[p].result = "deleted"
            /\ \A s \in servers : s.id # req[p].server.id

\* a delete whose forced removal failed and whose rmtree failed as well
C11_Witness ==
    /\ req[1].pc = "done" /\ req[1].op = "delete_server"
    /\ req[1].result = "deleted"
    /\ RemovalFailed(req[1]) /\ RmtreeFailed(req[1])
    /\ servers = {}

\* ---------------------------------------------------------------------- C12
\* allocate_port_block on its own: the store holds up to MaxUsed rows whose
\* base ports lie on the first MaxBlocks block starts of the pool, and one
\* create_server request stands before its allocation
MaxUsed == 3
MaxBlocks == 4

\* the name of the i-th stored row: "a", "aa", "aaa", ...
row_name(i) == [j \in 1 .. i |-> "a"]

stored_row(i, base) ==
    [id |-> i, name |-> row_name(i), slug |-> slugify(row_name(i)),
     world_name |-> "w", password |-> "p", base_port |-> base,
     container_name |-> container_name_of(slugify(row_name(i)))]

first_blocks(c) ==
    {b \in range(c.start, c.end, c.step) : b < c.start + MaxBlocks * c.step}

InitAlloc ==
    /\ conf \in Configs
    /\ \E n \in 0 .. MaxUsed :
         \E f \in [1 .. n -> first_blocks(conf)] :
             servers = {stored_row(i, f[i]) : i \in 1 .. n}
    /\ containers = NoContainers
    /\ dirs = {}
    /\ req = [p \in Procs |->
                IF p = 1
                THEN [Idle EXCEPT !.op = "create_server", !.name = <<"!", "!">>,
                                  !.world_name = "w", !.password = "p",
                                  !.slug = slugify(<<"!", "!">>),
                                  !.pc = "cs_alloc"]
                ELSE Idle]

NextAlloc == create_server_allocate(1)

AllocSpec == InitAlloc /\ [][NextAlloc]_vars

UsedPorts == {s.base_port : s \in servers}

\* start + k * step is a block start of the pool
IsCandidate(b) ==
    \E k \in 0 .. (conf.end - conf.start) :
        b = conf.start + k * conf.step /\ b < conf.end

\* C12: the port a create_server request was given is a block start
\* rangeStart + k * blockSize below rangeEnd that no row holds, and every
\* smaller block start is held by a row; the answer is a function of the rows
\* alone, so removing the only row that holds a block makes the scan return
\* that block or a smaller one; with the shipped pool [24560, 24660) step 3
\* the answer is 24560 on an empty store and 24566 when 24560 and 24563 are
\* held.
C12_SmallestFreeBlock ==
    \A p \in Procs :
        (req[p].op = "create_server" /\ req[p].pc = "cs_commit") =>
            /\ IsCandidate(req[p].base_port)
            /\ req[p].base_port \notin UsedPorts
            /\ \A b \in conf.start .. (req[p].base_port - 1) :
                   IsCandidate(b) => b \in UsedPorts
            /\ \A s \in servers :
                   (\A t \in servers \ {s} : t.base_port # s.base_port) =>
                       LET again == allocate_port_block(delete_row(servers, s))
                       IN  again # NoFreePort /\ again <= s.base_port
                           /\ (s.base_port < req[p].base_port => again = s.base_port)
            /\ (conf = DefaultConfig /\ UsedPorts = {}) =>
                   req[p].base_port = 24560
            /\ (conf = DefaultConfig /\ UsedPorts = {24560, 24563}) =>
                   req[p].base_port = 24566

\* the shipped pool with 24560 and 24563 held: the request was given 24566
C12_Witness ==
    /\ conf = DefaultConfig
    /\ UsedPorts = {24560, 24563}
    /\ req[1].pc = "cs_commit" /\ req[1].base_port = 24566

\* ---------------------------------------------------------------------- C13
\* every block start of the pool is the base_port of some row
PoolExhausted == \A b \in conf.start .. (conf.end - 1) : IsCandidate(b) => b \in UsedPorts

\* C13: when every block start of [rangeStart, rangeEnd) is held by a row the
\* allocation of a create_server request fails ("No free ports left in
\* pool"), and the request that met the failure has stored no row, issued no
\* runtime or file-system call and left rows, containers and directories as
\* they were.
C13_ExhaustedPoolNoEffect ==
    /\ [](\A p \in Procs :
            (req[p].pc = "done" /\ req[p].op = "create_server"
                /\ req[p].result = "no_free_ports") =>
                (PoolExhausted /\ req[p].server = NoServer /\ req[p].calls = <<>>))
    /\ [][\A p \in Procs :
            (req[p].pc = "cs_alloc" /\ req'[p] # req[p] /\ PoolExhausted) =>
                /\ req'[p].pc = "done" /\ req'[p].result = "no_free_ports"
                /\ servers' = servers /\ containers' = containers
                /\ dirs' = dirs]_vars

\* a request refused on a pool of one block whose block is held, with the
\* holder's container and directory in place
C13_Witness ==
    /\ req[1].pc = "done" /\ req[1].op = "create_server"
    /\ req[1].result = "no_free_ports"
    /\ UsedPorts = {conf.start}
    /\ \E s \in servers : ContainerOf([server |-> s]).status = "running"
                          /\ s.slug \in dirs

\* ---------------------------------------------------------------------- C14
Rejections == {"missing_fields", "duplicate"}

\* C14: a create_server request with an empty name, world_name or password,
\* or whose slug is the slug of a stored row, is answered at once with a
\* rejection (400 or 409) and has no side effect: the step that rejects it
\* leaves rows, containers (and their states) and directories unchanged, and
\* the rejected request has stored no row and issued no call.
C14_RejectionNoEffect ==
    /\ [](\A p \in Procs :
            (req[p].pc = "done" /\ req[p].op = "create_server"
                /\ req[p].result \in Rejections) =>
                (req[p].server = NoServer /\ req[p].calls = <<>>))
    /\ [][\A p \in Procs :
            (req[p].pc = "idle" /\ req'[p].op = "create_server"
                /\ (\/ req'[p].name = <<>>
                    \/ req'[p].world_name = ""
                    \/ req'[p].password = ""
                    \/ \E s \in servers : s.slug = slugify(req'[p].name))) =>
                /\ req'[p].pc = "done" /\ req'[p].result \in Rejections
                /\ servers' = servers /\ containers' = containers
                /\ dirs' = dirs]_vars

\* a request named "a!" refused because "A" holds the slug "a", with the
\* holder's container running
C14_Witness ==
    /\ req[1].pc = "done" /\ req[1].op = "create_server"
    /\ req[1].result = "duplicate"
    /\ req[1].name = <<"a", "!">>
    /\ \E s \in servers : s.name = <<"A">> /\ s.slug = slugify(req[1].name)
                          /\ ContainerOf([server |-> s]).status = "running"

\* ---------------------------------------------------------------------- C15
\* the requests that are past lines 601-602 and still hold their query string
FetchingLogs == {"lg_get", "lg_logs"}

\* C15: the tail a get_server_logs request passes to container.logs is 500
\* when the query has no tail, 5000 when the requested integer is above
\* 5000, 1 when it is below 1 (0 and negative values), and the requested
\* integer otherwise.
C15_TailClamped ==
    \A p \in Procs :
        (req[p].op = "get_server_logs" /\ req[p].pc \in FetchingLogs) =>
            LET arg == req[p].tail_arg
            IN  /\ arg = <<>> => req[p].tail = 500
                /\ arg # <<>> =>
                       /\ arg[1] > 5000 => req[p].tail = 5000
                       /\ arg[1] < 1 => req[p].tail = 1
                       /\ (1 <= arg[1] /\ arg[1] <= 5000) => req[p].tail = arg[1]
                /\ arg = <<50000>> => req[p].tail = 5000
                /\ arg \in {<<0>>, <<-1>>} => req[p].tail = 1

\* tail=0 was requested and container.logs is about to be called with 1
C15_Witness ==
    /\ req[1].op = "get_server_logs" /\ req[1].pc = "lg_logs"
    /\ req[1].tail_arg = <<0>> /\ req[1].tail = 1

\* ---------------------------------------------------------------------- C16
\* slugify on its own: create_server's first step on an empty store, for every
\* name of up to MaxNameLen characters over a letter, a capital, a digit, the
\* separator itself and two other characters
MaxNameLen == 4

SlugAlphabet == {"a", "A", "1", "-", "!", " "}

NameInputs == UNION {[1 .. n -> SlugAlphabet] : n \in 0 .. MaxNameLen}

NextSlug == create_server_named(1, NameInputs)

SlugSpec == InitDefault /\ [][NextSlug]_vars

IsAlnum(c) == c \in Alnum
Lowered(name) == [i \in 1 .. Len(name) |-> lower(name[i])]
Separators(slug) == {i \in 1 .. Len(slug) : slug[i] = "-"}

\* the positions of a name where a run of other characters ends that has an
\* alphanumeric character on both sides
InnerRuns(name) ==
    LET low == Lowered(name)
    IN  {i \in 2 .. Len(low) :
            /\ IsAlnum(low[i]) /\ ~IsAlnum(low[i - 1])
            /\ \E j \in 1 .. (i - 2) : IsAlnum(low[j])}

MyCoolWorld ==
    <<"M", "y", " ", "C", "o", "o", "l", " ", "W", "o", "r", "l", "d", "!", "!">>

\* C16: the slug derived from a name is non-empty, is made of lowercase
\* letters, digits and "-" with no two "-" in a row and none at either end;
\* its letters and digits are those of the lowercased name in order, with
\* exactly one "-" for each run of other characters that lies between two of
\* them; a name without a letter or digit gives the default token "server";
\* "My Cool World!!" gives "my-cool-world".
C16_SlugShape ==
    /\ \A p \in Procs :
        (req[p].op = "create_server" /\ req[p].pc = "cs_alloc") =>
            LET name == req[p].name
                slug == req[p].slug
                low == Lowered(name)
            IN  /\ slug # <<>>
                /\ \A i \in 1 .. Len(slug) : IsAlnum(slug[i]) \/ slug[i] = "-"
                /\ \A i \in 1 .. (Len(slug) - 1) :
                       ~(slug[i] = "-" /\ slug[i + 1] = "-")
                /\ slug[1] # "-" /\ slug[Len(slug)] # "-"
                /\ IF \E i \in 1 .. Len(low) : IsAlnum(low[i])
                   THEN /\ SelectSeq(slug, IsAlnum) = SelectSeq(low, IsAlnum)
                        /\ Cardinality(Separators(slug)) = Cardinality(InnerRuns(name))
                   ELSE slug = DefaultSlug
    /\ slugify(MyCoolWorld)
         = <<"m", "y", "-", "c", "o", "o", "l", "-", "w", "o", "r", "l", "d">>

\* "a!!A": a run of two other characters between two letters became one "-"
C16_Witness ==
    /\ req[1].pc = "cs_alloc"
    /\ req[1].name = <<"a", "!", "!", "A">>
    /\ req[1].slug = <<"a", "-", "a">>

\* ---------------------------------------------------------------------- C17
\* start, stop, restart and delete requests, one per worker, overlapping in
\* any way, against a panel that holds one provisioned server: its container
\* is running, stopped, created and never started, or gone
provisioned ==
    [id |-> 1, name |-> <<"A">>, slug |-> slugify(<<"A">>),
     world_name |-> "w", password |-> "p",
     base_port |-> VALHEIM_PORT_RANGE_START,
     container_name |-> container_name_of(slugify(<<"A">>))]

InitLifecycle ==
    /\ conf = DefaultConfig
    /\ servers = {provisioned}
    /\ \E c \in {Missing} \cup
                {[status |-> s, ports |-> ports_of(provisioned)] :
                    s \in {"running", "exited", "created"}} :
         containers = [NoContainers EXCEPT ![provisioned.container_name] = c]
    /\ \/ dirs = {provisioned.slug}
       \/ /\ containers[provisioned.container_name] = Missing
          /\ dirs = {}
    /\ req = [p \in Procs |-> Idle]

Lifecycle(p) ==
    \/ start_server_begin(p)
    \/ start_server_get(p)
    \/ start_server_start(p)
    \/ cvc_get(p)
    \/ cvc_reload(p)
    \/ cvc_remove(p)
    \/ cvc_mkdir(p)
    \/ cvc_run(p)
    \/ cvc_run_start(p)
    \/ stop_server_begin(p)
    \/ stop_server_get(p)
    \/ stop_server_stop(p)
    \/ restart_server_begin(p)
    \/ restart_server_get(p)
    \/ restart_server_restart(p)
    \/ delete_server_begin(p)
    \/ delete_server_get(p)
    \/ delete_server_remove(p)
    \/ delete_server_rmtree(p)
    \/ delete_server_commit(p)

NextLifecycle == \E p \in Procs : Lifecycle(p)

LifeSpec == InitLifecycle /\ [][NextLifecycle]_vars

\* C17: once every request has returned and no removal call of the runtime
\* has failed, a server whose row is deleted has no container under its
\* container_name.
C17_NoContainerWithoutRecord ==
    (/\ AllReturned
     /\ \A p \in Procs : ~RemovalFailed(req[p])
     /\ \A s \in servers : s.container_name # provisioned.container_name) =>
        containers[provisioned.container_name] = Missing

\* ---------------------------------------------------------------------- C18
\* C18: whenever no request is in progress every workspace directory belongs
\* to a stored row (same slug), and a container that was created and is about
\* to be launched has its workspace directory on disk.
C18_WorkspaceTiedToRecord ==
    /\ AllReturned => \A d \in dirs : \E s \in servers : s.slug = d
    /\ \A p \in Procs :
           req[p].pc = "cvc_run_start" => req[p].server.slug \in dirs

\* ---------------------------------------------------------------------- C19
\* the launch of create_valheim_container failed after its mkdir calls
LaunchFailed(r) ==
    /\ r.pc = "done" /\ r.op = "create_server" /\ r.result = "docker_error"
    /\ "mkdir" \in Issued(r) /\ "run" \in Issued(r)

\* C19: a create_server whose containers.run failed after the directories
\* were made ends with its row deleted again and the directories of its slug
\* still on disk.
C19_RollbackLeavesWorkspace ==
    \A p \in Procs :
        LaunchFailed(req[p]) =>
            /\ \A s \in servers : s.id # req[p].server.id
            /\ req[p].server.slug \in dirs

\* such a request on an empty panel: no row, no container, one directory
C19_Witness ==
    /\ LaunchFailed(req[1])
    /\ servers = {}
    /\ dirs = {req[1].server.slug}
    /\ \A cn \in ContainerNames : containers[cn] = Missing

\* ---------------------------------------------------------------------- C20
\* the requests that read the store and act on the runtime only
ReadOps ==
    {"start_server", "stop_server", "restart_server", "get_server_logs",
     "list_servers"}

\* C20: no step of a start_server, stop_server, restart_server,
\* get_server_logs or list_servers request changes the rows: none is added,
\* deleted or modified; and a row has the columns of the table and no more,
\* the status of a container appears in the listing only.
C20_ReadOpsKeepRecords ==
    /\ [][\A p \in Procs :
            ((req[p].op \in ReadOps \/ req'[p].op \in ReadOps)
                /\ req'[p] # req[p]) => servers' = servers]_vars
    /\ [](\A s \in servers : DOMAIN s = DOMAIN NoServer)

\* a listing that reports a stopped container, next to the row as it was
\* stored
C20_Witness ==
    /\ req[1].pc = "done" /\ req[1].op = "list_servers"
    /\ \E e \in req[1].listing :
          /\ e.container_status = "exited"
          /\ \E s \in servers : to_dict(s) = e.info

\* ---------------------------------------------------------------------- C21
\* C21: whenever no request is in progress, a row is stored and the runtime
\* knows a container under its container_name, that container publishes the host ports base_port,
\* base_port + 1 and base_port + 2 of the row and no others.
C21_ContainerPublishesRecordPorts ==
    AllReturned =>
        \A s \in servers :
            containers[s.container_name].status # "missing" =>
                containers[s.container_name].ports
                    = {s.base_port, s.base_port + 1, s.base_port + 2}

\* ---------------------------------------------------------------------- C22
\* the shipped pool filling up: the store holds the rows of the first n
\* create_server requests of an empty panel, n up to MaxServers (the pool
\* less its last block), each on the block the scan gave it, and one more
\* request stands before its allocation
MaxServers == 33

PoolNames == {<<"!", "!">>, <<"B">>}

InitPool ==
    /\ conf = DefaultConfig
    /\ \E n \in 0 .. MaxServers :
         /\ n <= Cardinality(range(conf.start, conf.end, conf.step))
         /\ servers = {stored_row(i, conf.start + (i - 1) * conf.step) : i \in 1 .. n}
    /\ containers = NoContainers
    /\ dirs = {}
    /\ \E name \in PoolNames :
         req = [p \in Procs |->
                  IF p = 1
                  THEN [Idle EXCEPT !.op = "create_server", !.name = name,
                                    !.world_name = "w", !.password = "p",
                                    !.slug = slugify(name), !.pc = "cs_alloc"]
                  ELSE Idle]

NextPool ==
    \/ create_server_allocate(1)
    \/ create_server_commit(1)

PoolSpec == InitPool /\ [][NextPool]_vars

\* C22: the host ports of every stored row lie inside the configured pool:
\* rangeStart <= base_port and base_port + 2 < rangeEnd.
C22_PortsInsidePool ==
    \A s \in servers :
        conf.start <= s.base_port /\ s.base_port + 2 < conf.end

\* ---------------------------------------------------------------------- C23
\* C23: whatever the configured block size, the port set {base_port,
\* base_port + 1, base_port + 2} of a row whose create_server has just
\* answered 201, requests being served one after the other, does not meet
\* the port set of any other row that has a container.
C23_DisjointPortsAnyBlockSize ==
    \A p \in Procs :
        (req[p].pc = "done" /\ req[p].op = "create_server"
            /\ req[p].result = "created") =>
            \A t \in servers \ {req[p].server} :
                containers[t.container_name].status # "missing" =>
                    ports_of(req[p].server) \cap ports_of(t) = {}

=============================================================================
